---- MODULE Spec2Model ----
(***************************************************************************)
(* A model of the step sequencer of snowfall (src/src/sequencer.ts): the   *)
(* lookahead scheduler, the pattern store and the mutation engine.         *)
(*                                                                         *)
(* Time.  The audio clock and every schedule time are JavaScript numbers   *)
(* (seconds).  The model keeps them as exact integers in units of 1/9600   *)
(* second, so that every step duration 60/tempo/4, every swing offset and  *)
(* every sub-hit interval used below is a whole number of units.  Swing is *)
(* kept in tenths (0..10 for 0.0..1.0).  Rounding of IEEE doubles is not   *)
(* modelled.                                                               *)
(*                                                                         *)
(* Handlers.  JavaScript runs every handler to completion.  The scheduler  *)
(* tick is the one handler with a loop; it is modelled by TickBegin, one   *)
(* TickStep per iteration of its while loop, and TickEnd, and while it is  *)
(* inside the loop (pc = "loop") no other action is enabled.               *)
(*                                                                         *)
(* Timers.  The setInterval tick is due every SCHEDULE_AHEAD from start;   *)
(* the callbacks given to setTimeout wait in the queue timeouts.  A due    *)
(* timer runs before the clock moves again, so a callback is late by less  *)
(* than one jump of the clock.                                             *)
(*                                                                         *)
(* Numbers.  The setters take any JavaScript number; NaN is kept as a      *)
(* value apart, and Math.min and Math.max hand it on as they do in         *)
(* JavaScript.                                                             *)
(***************************************************************************)
EXTENDS Integers, Sequences, FiniteSets, TLC

\* ------------------------------------------------------------ constants
STEPS == 16
TRACKS == 6
MAX_SUBDIV == 4

\* One second, in model time units.
SECOND == 96 * 100

\* LOOKAHEAD = 0.1 s, SCHEDULE_AHEAD = 0.05 s, the initial delay 0.05 s.
LOOKAHEAD == 960
SCHEDULE_AHEAD == 480
INITIAL_DELAY == 480

\* Tempo clamp [40, 200] and default 120; swing clamp [0, 1] in tenths.
TEMPO_MIN == 40
TEMPO_MAX == 200
TEMPO_DEFAULT == 120
SWING_MIN == 0
SWING_MAX == 10
\* Stutter rate and chance clamp [0, 1], kept in hundredths.
STUTTER_MIN == 0
STUTTER_MAX == 100

\* null
NULL == 0

\* -------------------------------------------------------------- bounds
\* The clock horizon, in units of SCHEDULE_AHEAD.
MaxClock == 37
\* How many calls (setters, edits, start, stop, toggle) the user makes.
MaxCalls == 3

\* The amounts by which the audio clock advances between two handlers, in
\* units of SCHEDULE_AHEAD: on time, and late by more than LOOKAHEAD.
ClockJumps == {1, 3}
\* The amounts by which the audio clock advances in a run with timer
\* jitter, in model time units: half of SCHEDULE_AHEAD, SCHEDULE_AHEAD, and
\* one and a half of it.
JitterJumps == {240, 480, 720}
\* The (track, step) indices the user passes: a cell of the grid, and indices
\* outside it on each side.
EditCells == {<<0, 0>>, <<-1, 0>>, <<6, 0>>, <<0, -1>>, <<0, 16>>}
\* The values passed to setStep.
EditValues == {-3, 2, 9}
\* The random tapes of the fills.
FillTapes == {<<0, 50, 99, 10, 30>>, <<99, 12>>}
\* Further tapes of the fills: every draw the lowest, every draw the highest,
\* and twelve different draws.
FillDraws == {<<0>>, <<99>>, <<50, 20, 70, 40, 90, 10, 30, 60, 80, 5, 45, 95>>}
\* The random tapes of the mutation engine while the scheduler runs: one flip
\* that turns cell (0, 0) on, and a removal of up to two hits of track 0.
SchedTapes == {<<0, 0, 0, 0, 99>>, <<50, 0, 0, 0>>}
\* The random tapes of scheduleStep: velocity and stutter draws.
StepTapes == {<<50, 0, 99>>, <<99>>}
\* Arguments the callers pass to setTempo and setSwing (swing in tenths).
TempoInputs == {30, 9999}
SwingInputs == {-50, 5, 10}
\* The longest sequence asked of euclidean.
MaxEuclid == 16
\* How many mutation cycles follow one another from a start pattern.
MaxCycles == 2
\* The random tapes of a mutation cycle, two or three for each operator:
\* flips (three that turn cells on, one that turns cell (0, 0) off, two on
\* other cells), shifts to the right and to the left, removals of two hits
\* and of one, swaps of two cells and of a cell with itself, two cleared
\* sections, two replaced tracks.
MutateTapes ==
  { <<0, 99, 0, 0, 99, 20, 20, 99, 40, 40, 99>>, <<10, 0, 0, 0, 0>>,
    <<20, 50, 99, 99, 0, 50, 50, 99>>,
    <<30, 0, 0>>, <<30, 40, 99>>,
    <<50, 0, 0, 0, 0>>, <<60, 40, 99, 50>>,
    <<70, 0, 10, 99>>, <<70, 40, 50, 50>>,
    <<80, 0, 99, 99>>, <<80, 40, 0, 0>>,
    <<90, 40, 60, 0>>, <<99, 0, 0, 99>> }
\* How many mutation cycles follow one another in a long run.
MaxDrift == 6
\* The random tapes of a long run, each of which adds cells: the hat track
\* replaced by four hits, and four times three flips that turn on cells of
\* tracks 3 to 5.
DriftTapes ==
  { <<90, 40, 60, 0>>,
    <<0, 99, 50, 0, 99, 50, 10, 99, 50, 20, 99>>,
    <<0, 99, 70, 0, 99, 70, 10, 99, 70, 20, 99>>,
    <<0, 99, 90, 0, 99, 90, 10, 99, 90, 20, 99>>,
    <<0, 99, 50, 30, 99, 70, 30, 99, 90, 30, 99>> }
\* How many cells, counted row by row from cell (0, 0), a start pattern has
\* active, and the subdivision value they hold.
StartCounts == {0, 1, 17, 33, 34, 47, 48, 49, 52, 60, 96}
StartValues == {1, 3}
\* Arguments passed to setStutter, in hundredths.
StutterInputs == {-20, 5, 60, 150}
\* The stutter settings (rate, chance) a dispatch run plays with: off, a rate
\* of 0 with every chance, a rate of 0.05 (not above the threshold), and one
\* rate for each of the four subdivisions.
DispatchStutter == {<<0, 0>>, <<0, 100>>, <<5, 100>>, <<20, 100>>, <<40, 60>>, <<60, 100>>, <<100, 100>>}
\* The tempos a dispatch run plays at: the two ends of the clamp and the
\* default.
DispatchTempos == {40, 120, 200}
\* Further tapes of scheduleStep: the lowest draws (one repeat), and a
\* stutter test that fails at a chance of 0.6.
DispatchTapes == {<<0>>, <<50, 70, 0, 20>>}

\* The number NaN: a value apart from every tempo, swing and stutter value.
NaN == -1000000

Min(a, b) == IF a < b THEN a ELSE b
Max(a, b) == IF a > b THEN a ELSE b

VARIABLES
  pattern,            \* pattern[track][step]: 0 = off, 1..4 = subdivisions
  isPlaying,
  tempo,
  swing,
  currentStep,
  evolveMode,
  stutterRate,        \* in hundredths
  stutterChance,      \* in hundredths
  currentFillType,    \* the fill strategy applied last
  schedulerInterval,  \* the interval handle, or NULL
  nextStepTime,
  onStepChange,       \* a callback is registered (TRUE) or null (FALSE)
  onPatternChange,
  audioState,         \* the AudioContext: "none", "suspended", "running"
  now,                \* ctx.currentTime
  intervals,          \* the browser's active setInterval handles
  intervalDue,        \* when the browser next runs the interval callback
  pc,                 \* "idle", or "loop" inside scheduler()'s while loop
  run,                \* what the current run has dispatched so far
  events,             \* what the last handler step emitted
  edits,              \* user calls made so far
  timeouts,           \* the browser's pending setTimeout callbacks, oldest first
  args,               \* the arguments of the function under test
  result              \* what it returned, and in how many calls

vars == <<pattern, isPlaying, tempo, swing, currentStep, evolveMode,
          stutterRate, stutterChance, currentFillType, schedulerInterval, nextStepTime, onStepChange, onPatternChange,
          audioState, now, intervals, intervalDue, pc, run, events, edits, timeouts,
          args, result>>

playback == <<isPlaying, currentStep, schedulerInterval, nextStepTime, intervals, intervalDue>>
params == <<tempo, swing, edits>>
stutter == <<stutterRate, stutterChance>>
callbacks == <<onStepChange, onPatternChange>>
call == <<args, result>>
clock == <<audioState, now>>

Tracks == 0 .. TRACKS - 1
Steps == 0 .. STEPS - 1

EmptyPattern == [t \in Tracks |-> [s \in Steps |-> 0]]

\* The pattern whose first n cells, row by row, hold the value v.
prefix(n, v) == [t \in Tracks |-> [s \in Steps |-> IF t * STEPS + s < n THEN v ELSE 0]]

\* Tracks 0, 1 and 3 full and the others empty: 48 active cells.
threeRows == [t \in Tracks |-> [s \in Steps |-> IF t \in {0, 1, 3} THEN 1 ELSE 0]]

\* Tracks 0 to 2 hold the values 0, 1, 2, 3, 4, 0, 1, ...: 36 active cells.
ramps == [t \in Tracks |-> [s \in Steps |-> IF t < 3 THEN s % (MAX_SUBDIV + 1) ELSE 0]]

\* Tracks 0 and 1 full and cell (3, 15): 33 active cells, the most at or
\* below the soft cap.
softCapped ==
  [t \in Tracks |-> [s \in Steps |-> IF t < 2 \/ (t = 3 /\ s = 15) THEN 1 ELSE 0]]

\* The patterns a long run starts from.
DriftStarts == {EmptyPattern, softCapped}

\* The patterns the mutation cycles start from; setStep can build each.
MutateStarts ==
  {prefix(n, v) : n \in StartCounts, v \in StartValues} \cup {threeRows, ramps}

Event(kind, x, t) == [ev |-> kind, x |-> x, t |-> t]

\* The record of a run: the clock at its start, whether tempo and swing have
\* stayed what they were at the start, how many steps it has dispatched, the
\* index and target time of the last one, and whether the run before it was
\* stopped at a step other than 0.
NoRun == [start |-> 0, steady |-> TRUE, n |-> 0, step |-> 0, time |-> 0,
          resumed |-> FALSE, gap |-> 0, before |-> 0]

\* ------------------------------------------------------ audio engine
isAudioReady == audioState = "running"

getAudioContext == audioState # "none"

\* ------------------------------------------------------------- timers
setInterval(active) == CHOOSE id \in 1 .. Cardinality(active) + 1 : id \notin active

clearInterval(active, id) == active \ {id}

\* ------------------------------------------------------------ arithmetic
\* JavaScript's +, *, / and < on numbers of which any may be NaN: an
\* operation on NaN gives NaN, a comparison with NaN is false.
plus(a, b) == IF a = NaN \/ b = NaN THEN NaN ELSE a + b

times(a, b) == IF a = NaN \/ b = NaN THEN NaN ELSE a * b

over(a, b) == IF a = NaN \/ b = NaN THEN NaN ELSE a \div b

less(a, b) == a # NaN /\ b # NaN /\ a < b

\* ------------------------------------------------------------ scheduler
stepDuration(bpm) == over(60 * SECOND, times(bpm, 4))

\* The offset put on the even steps instead of the odd ones.
swingOffsetOnBeat(step, bpm, sw) ==
  IF step % 2 = 0 THEN (stepDuration(bpm) * sw * 3) \div (SWING_MAX * 10) ELSE 0

swingOffset(step, bpm, sw) ==
  IF step % 2 = 1 THEN over(times(times(stepDuration(bpm), sw), 3), SWING_MAX * 10) ELSE 0

\* ------------------------------------------------------------ randomness
\* Math.random() is a tape of draws, read in order: the draw u stands for the
\* value u / RandScale of [0, 1).  A tape shorter than the reads repeats.
RandScale == 10 * 10

Draw(tape, k) == tape[((k - 1) % Len(tape)) + 1]

\* Math.floor(Math.random() * n)
RandInt(u, n) == (u * n) \div RandScale

\* ------------------------------------------------------------ euclidean
RECURSIVE mergeGroups(_, _, _)
mergeGroups(groups, i, half) ==
  IF i >= half THEN groups
  ELSE LET last == groups[Len(groups)]
           merged == [groups EXCEPT ![i + 1] = groups[i + 1] \o last]
       IN  mergeGroups(SubSeq(merged, 1, Len(merged) - 1), i + 1, half)

\* One pass of merging instead of the loop.
bjorklundOnePass(groups, divisor, steps) ==
  IF divisor > 1 THEN mergeGroups(groups, 0, Min(divisor, steps)) ELSE groups

RECURSIVE bjorklund(_, _, _)
bjorklund(groups, divisor, steps) ==
  IF divisor > 1
  THEN LET half == Min(divisor, steps)
       IN  bjorklund(mergeGroups(groups, 0, half), divisor - half, half)
  ELSE groups

\* The first group only, instead of all of them one after the other.
flatFirst(groups) == IF groups = <<>> THEN <<>> ELSE Head(groups)

RECURSIVE flat(_)
flat(groups) == IF groups = <<>> THEN <<>> ELSE Head(groups) \o flat(Tail(groups))

\* The array left as Array(steps).fill(false).
fullUnfilled(steps) == [i \in 0 .. steps - 1 |-> FALSE]

\* Array(steps).fill(true)
full(steps) == [i \in 0 .. steps - 1 |-> TRUE]

euclidean(hits, steps) ==
  IF hits <= 0 THEN [i \in 0 .. steps - 1 |-> FALSE]
  ELSE IF hits >= steps THEN full(steps)
  ELSE LET start == [i \in 1 .. steps |-> IF i - 1 < hits THEN <<1>> ELSE <<0>>]
           f == flat(bjorklund(start, steps - hits, hits))
       IN  [i \in 0 .. steps - 1 |-> i < Len(f) /\ f[i + 1] = 1]

\* ---------------------------------------------------------------- fills
\* fillEuclidean(): six draws for the densities, then one per track for the
\* rotation.
\* Every density drawn from 0 .. 9.
fillDensitiesAny(tape) == [t \in 1 .. TRACKS |-> RandInt(Draw(tape, t), 10)]

fillDensities(tape) ==
  << RandInt(Draw(tape, 1), 4) + 2,
     RandInt(Draw(tape, 2), 3) + 1,
     RandInt(Draw(tape, 3), 6) + 4,
     RandInt(Draw(tape, 4), 2),
     RandInt(Draw(tape, 5), 5) + 1,
     RandInt(Draw(tape, 6), 3) >>

fillEuclidean(tape) ==
  [t \in Tracks |->
     LET rhythm == euclidean(fillDensities(tape)[t + 1], STEPS)
         rotation == RandInt(Draw(tape, TRACKS + 1 + t), STEPS)
     IN  [s \in Steps |-> IF rhythm[(s + rotation) % STEPS] THEN 1 ELSE 0]]

\* The probabilities of fillRandom, in percent.
probabilities == <<25, 15, 50, 5, 20, 10>>

\* Math.random() < percent / 100
chance(u, percent) == u * 100 < percent * RandScale

\* fillRandom(): one draw per cell, track by track.
fillRandom(tape) ==
  [t \in Tracks |->
     [s \in Steps |->
        IF chance(Draw(tape, t * STEPS + s + 1), probabilities[t + 1]) THEN 1 ELSE 0]]

\* The chance, in percent, that fillGlitch flips a cell.
GLITCH_FLIP == 15
\* The steps a burst of fillGlitch may start at: 0 .. BURST_STARTS - 1.
BURST_STARTS == 12

\* The three draws of the burst of fillGlitch() follow the draws of
\* fillEuclidean() and the one draw per cell of the flips.
burstDraw(tape, k) == Draw(tape, 2 * TRACKS + TRACKS * STEPS + k)

burstTrack(tape) == RandInt(burstDraw(tape, 1), TRACKS)

\* A burst that may start at any step of the row.
burstStartAnywhere(tape) == RandInt(burstDraw(tape, 2), STEPS)

burstStart(tape) == RandInt(burstDraw(tape, 2), BURST_STARTS)

burstLength(tape) == RandInt(burstDraw(tape, 3), 3) + 2

\* The chaos fillGlitch() adds to the base pattern: one draw per cell for the
\* flips, then three draws for the burst.
glitch(base, tape) ==
  LET k == 2 * TRACKS
      flipped == [t \in Tracks |->
                    [s \in Steps |->
                       IF chance(Draw(tape, k + t * STEPS + s + 1), GLITCH_FLIP)
                       THEN (IF base[t][s] > 0 THEN 0 ELSE 1)
                       ELSE base[t][s]]]
  IN  [flipped EXCEPT ![burstTrack(tape)] =
         [s \in Steps |->
            IF s >= burstStart(tape) /\ s < Min(burstStart(tape) + burstLength(tape), STEPS)
            THEN 1 ELSE @[s]]]

\* fillGlitch(): fillEuclidean() first, evaluated once, then the chaos.
fillGlitch(tape) ==
  CHOOSE p \in {glitch(base, tape) : base \in {fillEuclidean(tape)}} : TRUE

FillTypes == {"euclidean", "random", "glitch"}

\* What each fill writes for each tape: the fills overwrite every cell, so the
\* pattern they leave depends on the draws alone.
filled ==
  [type \in FillTypes, tape \in FillTapes \cup FillDraws |->
     CASE type = "euclidean" -> fillEuclidean(tape)
       [] type = "random" -> fillRandom(tape)
       [] type = "glitch" -> fillGlitch(tape)]

\* fillGlitch() without its call of fillEuclidean(): the chaos is added to
\* the pattern p as it stands.
fillOnTop(p, type, tape) ==
  IF type = "glitch" THEN glitch(p, tape) ELSE filled[type, tape]

\* fillFunctions[type]() on the pattern p, of which no fill reads a cell
fillFunctions(p, type, tape) == filled[type, tape]

types == <<"euclidean", "random", "glitch">>

\* types.indexOf(type), from 0
indexOf(type) == (CHOOSE i \in DOMAIN types : types[i] = type) - 1

\* The type left where it is.
sameFillType(type) == type

\* The type applyFill() moves on to.
nextFillType(type) == types[((indexOf(type) + 1) % Len(types)) + 1]

\* ------------------------------------------------------ mutation engine
\* Thresholds in percent: 0.35 and 0.50.
DENSITY_SOFT_CAP == 35
DENSITY_HARD_CAP == 50

\* The number of active cells; getPatternDensity() is this over TRACKS * STEPS.
activeCount(p) == Cardinality({c \in Tracks \X Steps : p[c[1]][c[2]] > 0})

\* The active cells among the cells lo .. hi, counted row by row, in that
\* order (the two halves one after the other).
RECURSIVE activeBetween(_, _, _)
activeBetween(p, lo, hi) ==
  IF lo > hi THEN <<>>
  ELSE IF lo = hi
  THEN (IF p[lo \div STEPS][lo % STEPS] > 0 THEN << <<lo \div STEPS, lo % STEPS>> >> ELSE <<>>)
  ELSE activeBetween(p, lo, (lo + hi) \div 2) \o activeBetween(p, ((lo + hi) \div 2) + 1, hi)

\* The active cells from cell k on, row by row.
activeCells(p, k) == activeBetween(p, k, TRACKS * STEPS - 1)

\* One round of the Fisher-Yates shuffle of prunePattern: the entry at i
\* (0-based) changes places with the one at j = floor(random * (i + 1)); the
\* draw for i is the (Len(list) - i)-th of the tape.
swapRound(list, i, tape) ==
  LET j == RandInt(Draw(tape, Len(list) - i), i + 1)
  IN  [list EXCEPT ![i + 1] = list[j + 1], ![j + 1] = list[i + 1]]

\* The rounds i = hi down to lo, the upper half of them first.
RECURSIVE swapRounds(_, _, _, _)
swapRounds(list, hi, lo, tape) ==
  IF hi < lo THEN list
  ELSE IF hi = lo THEN swapRound(list, hi, tape)
  ELSE LET mid == (hi + lo) \div 2
           upper == swapRounds(list, hi, mid + 1, tape)
       IN  \* the test has the upper rounds evaluated before the lower ones
           IF Len(upper) = Len(list) THEN swapRounds(upper, mid, lo, tape) ELSE list

\* The shuffle, i from the last index down to 1.
shuffle(list, i, tape) == swapRounds(list, i, 1, tape)

\* The pattern with the first n of the cells set to 0.
clearCells(p, cells, n) ==
  LET cleared == {cells[i] : i \in 1 .. n}
  IN  [t \in Tracks |-> [s \in Steps |-> IF <<t, s>> \in cleared THEN 0 ELSE p[t][s]]]

\* No cell removed.
pruneNothing(p, count, tape) == p

prunePattern(p, count, tape) ==
  LET activeSteps == activeCells(p, 0)
      shuffled == shuffle(activeSteps, Len(activeSteps) - 1, tape)
      toRemove == Min(count, Len(activeSteps))
  IN  clearCells(p, shuffled, toRemove)

\* Math.random() < removalBias, for the draw u and a active cells.
\* removalBias is 0.4 up to the soft cap and
\* 0.7 + (density - 0.35) / (0.50 - 0.35) * 0.25 above it, which is
\* (168 + 25 a) / 1440 for density = a / 96.
belowBias(u, a) ==
  IF a * 100 > DENSITY_SOFT_CAP * TRACKS * STEPS
  THEN u * 1440 < (168 + 25 * a) * RandScale
  ELSE u * 10 < 4 * RandScale

aboveBias(u, a) ==
  IF a * 100 > DENSITY_SOFT_CAP * TRACKS * STEPS
  THEN u * 1440 > (168 + 25 * a) * RandScale
  ELSE u * 10 > 4 * RandScale

RECURSIVE flipSteps(_, _, _, _, _)
flipSteps(p, i, flips, a, tape) ==
  IF i >= flips THEN p
  ELSE LET t == RandInt(Draw(tape, 3 + 3 * i), TRACKS)
           s == RandInt(Draw(tape, 4 + 3 * i), STEPS)
           u == Draw(tape, 5 + 3 * i)
           q == IF p[t][s] > 0
                THEN (IF belowBias(u, a) THEN [p EXCEPT ![t][s] = 0] ELSE p)
                ELSE (IF aboveBias(u, a) THEN [p EXCEPT ![t][s] = 1] ELSE p)
       IN  flipSteps(q, i + 1, flips, a, tape)

\* The row moved without the wrap: the vacated cell is set to 0.
shiftTrackOpen(p, tape) ==
  LET t == RandInt(Draw(tape, 2), TRACKS)
      direction == IF Draw(tape, 3) * 2 < RandScale THEN 1 ELSE -1
  IN  [p EXCEPT ![t] = [s \in Steps |->
         IF s - direction \in Steps THEN p[t][s - direction] ELSE 0]]

shiftTrack(p, tape) ==
  LET t == RandInt(Draw(tape, 2), TRACKS)
      direction == IF Draw(tape, 3) * 2 < RandScale THEN 1 ELSE -1
  IN  [p EXCEPT ![t] = [s \in Steps |-> p[t][(s - direction + STEPS) % STEPS]]]

\* The active step indices of a row, ascending.
RECURSIVE rowActive(_, _)
rowActive(row, s) ==
  IF s >= STEPS THEN <<>>
  ELSE (IF row[s] > 0 THEN <<s>> ELSE <<>>) \o rowActive(row, s + 1)

\* list.splice(idx, 1), idx 0-based
splice(list, idx) == SubSeq(list, 1, idx) \o SubSeq(list, idx + 2, Len(list))

RECURSIVE removeLoop(_, _, _, _, _, _)
removeLoop(p, t, activeSteps, i, removeCount, tape) ==
  IF i >= removeCount THEN p
  ELSE LET idx == RandInt(Draw(tape, 4 + i), Len(activeSteps))
           removeIdx == activeSteps[idx + 1]
       IN  removeLoop([p EXCEPT ![t][removeIdx] = 0], t, splice(activeSteps, idx),
                      i + 1, removeCount, tape)

\* Every hit of the track removed.
removeRow(p, tape) ==
  [p EXCEPT ![RandInt(Draw(tape, 2), TRACKS)] = [s \in Steps |-> 0]]

removeHits(p, tape) ==
  LET t == RandInt(Draw(tape, 2), TRACKS)
      activeSteps == rowActive(p[t], 0)
      removeCount == Min(Len(activeSteps),
                         1 + (IF Draw(tape, 3) * 10 < 3 * RandScale THEN 1 ELSE 0))
  IN  IF Len(activeSteps) > 0 THEN removeLoop(p, t, activeSteps, 0, removeCount, tape)
      ELSE p

swapSteps(p, tape) ==
  LET t == RandInt(Draw(tape, 2), TRACKS)
      s1 == RandInt(Draw(tape, 3), STEPS)
      s2 == RandInt(Draw(tape, 4), STEPS)
      temp == p[t][s1]
      q == [p EXCEPT ![t][s1] = p[t][s2]]
  IN  [q EXCEPT ![t][s2] = temp]

clearSection(p, tape) ==
  LET t == RandInt(Draw(tape, 2), TRACKS)
      start == RandInt(Draw(tape, 3), 12)
      length == RandInt(Draw(tape, 4), 4) + 2
  IN  [p EXCEPT ![t] = [s \in Steps |->
         IF s >= start /\ s < Min(start + length, STEPS) THEN 0 ELSE p[t][s]]]

\* The highest densities of fillEuclidean instead of the sparser ones.
fullDensities == <<5, 3, 9, 1, 5, 2>>

sparseDensities == <<2, 1, 4, 1, 2, 1>>

replaceTrack(p, tape) ==
  LET t == RandInt(Draw(tape, 2), TRACKS)
      hits == Max(1, sparseDensities[t + 1] + RandInt(Draw(tape, 3), 2) - 1)
      rhythm == euclidean(hits, STEPS)
      rotation == RandInt(Draw(tape, 4), STEPS)
  IN  [p EXCEPT ![t] = [s \in Steps |->
         IF rhythm[(s + rotation) % STEPS] THEN 1 ELSE 0]]

\* The excess rounded down instead of up.
excessFloor(a) == (a * 100 - DENSITY_SOFT_CAP * TRACKS * STEPS) \div 100

\* Math.ceil((density - DENSITY_SOFT_CAP) * TRACKS * STEPS) for a active cells
excess(a) ==
  LET num == a * 100 - DENSITY_SOFT_CAP * TRACKS * STEPS
  IN  IF num <= 0 THEN -((-num) \div 100) ELSE (num + 99) \div 100

\* Which branch mutatePattern() takes with a active cells and the draw
\* mutationType (in hundredths).
mutation(a, mutationType) ==
  IF a * 100 > DENSITY_HARD_CAP * TRACKS * STEPS THEN "prune"
  ELSE IF mutationType < 25 THEN "flip"
  ELSE IF mutationType < 40 THEN "shift"
  ELSE IF mutationType < 65 THEN "remove"
  ELSE IF mutationType < 75 THEN "swap"
  ELSE IF mutationType < 85 THEN "clear"
  ELSE "replace"

\* Math.floor(Math.random() * 3) + 1, the number of flips, for the draw u
flipCount(u) == RandInt(u, 3) + 1

mutatePattern(p, tape) ==
  LET a == activeCount(p)
      kind == mutation(a, Draw(tape, 1))
  IN  CASE kind = "prune" -> prunePattern(p, Max(2, excess(a)), tape)
        [] kind = "flip" -> flipSteps(p, 0, flipCount(Draw(tape, 2)), a, tape)
        [] kind = "shift" -> shiftTrack(p, tape)
        [] kind = "remove" -> removeHits(p, tape)
        [] kind = "swap" -> swapSteps(p, tape)
        [] kind = "clear" -> clearSection(p, tape)
        [] kind = "replace" -> replaceTrack(p, tape)


\* ------------------------------------------------------------ environment
\* initAudio(): new AudioContext(), which starts suspended or running.
InitAudio ==
  /\ pc = "idle"
  /\ audioState = "none"
  /\ audioState' \in {"suspended", "running"}
  /\ events' = <<>>
  /\ UNCHANGED <<pattern, playback, params, callbacks, evolveMode, call, currentFillType, stutter, timeouts, now, pc, run>>

ResumeAudio ==
  /\ pc = "idle"
  /\ audioState = "suspended"
  /\ audioState' = "running"
  /\ events' = <<>>
  /\ UNCHANGED <<pattern, playback, params, callbacks, evolveMode, call, currentFillType, stutter, timeouts, now, pc, run>>

\* The interval callback is due: setInterval(scheduler, SCHEDULE_AHEAD) runs it
\* one period after the registration and one period after each run.
tickDue == intervals # {} /\ intervalDue <= now

\* No pending setTimeout callback is due.
noneDue == \A i \in DOMAIN timeouts : timeouts[i].t > now

\* The audio clock advances between handlers, while the context is running.
\* The browser runs the timer callbacks that are due before the clock reaches
\* its next reading: a callback is late by less than one jump of the clock.
advanceClock(amounts) ==
  /\ pc = "idle"
  /\ audioState = "running"
  /\ noneDue
  /\ ~tickDue
  /\ \E k \in amounts :
       /\ now + k <= MaxClock * SCHEDULE_AHEAD
       /\ now' = now + k
  /\ events' = <<>>
  /\ UNCHANGED <<pattern, playback, params, callbacks, evolveMode, call, currentFillType, stutter, timeouts, audioState, pc, run>>

AdvanceClock == advanceClock({k * SCHEDULE_AHEAD : k \in ClockJumps})

\* The clock advancing by amounts that make a tick late by less than
\* LOOKAHEAD - SCHEDULE_AHEAD, by just that, and by more.
AdvanceClockJitter == advanceClock(JitterJumps)

\* -------------------------------------------------------------- setters
\* Math.min and Math.max: NaN when either argument is NaN.
mathMin(a, b) == IF a = NaN \/ b = NaN THEN NaN ELSE Min(a, b)
mathMax(a, b) == IF a = NaN \/ b = NaN THEN NaN ELSE Max(a, b)

\* Math.max(lo, v) with the inner Math.min left out.
clampBelow(lo, hi, v) == mathMax(lo, v)

clamp(lo, hi, v) == mathMax(lo, mathMin(hi, v))

\* setTempo(bpm) for a bpm of the given inputs.
setTempo(inputs) ==
  /\ pc = "idle"
  /\ edits < MaxCalls
  /\ \E bpm \in inputs :
       /\ tempo' = clamp(TEMPO_MIN, TEMPO_MAX, bpm)
       /\ run' = [run EXCEPT !.steady = @ /\ tempo' = tempo]
       /\ events' = <<Event("setTempo", bpm, now)>>
  /\ edits' = edits + 1
  /\ UNCHANGED <<pattern, playback, swing, callbacks, evolveMode, call, currentFillType, stutter, timeouts, clock, pc>>

SetTempo == setTempo(TempoInputs)

\* setSwing(amount), in tenths, for an amount of the given inputs.
setSwing(inputs) ==
  /\ pc = "idle"
  /\ edits < MaxCalls
  /\ \E amount \in inputs :
       /\ swing' = clamp(SWING_MIN, SWING_MAX, amount)
       /\ run' = [run EXCEPT !.steady = @ /\ swing' = swing]
       /\ events' = <<Event("setSwing", amount, now)>>
  /\ edits' = edits + 1
  /\ UNCHANGED <<pattern, playback, tempo, callbacks, evolveMode, call, currentFillType, stutter, timeouts, clock, pc>>

SetSwing == setSwing(SwingInputs)

\* setStutter(x, y), both in hundredths.
setStutter(inputs) ==
  /\ pc = "idle"
  /\ edits < MaxCalls
  /\ edits' = edits + 1
  /\ \E x \in inputs, y \in inputs :
       /\ stutterRate' = clamp(STUTTER_MIN, STUTTER_MAX, x)
       /\ stutterChance' = clamp(STUTTER_MIN, STUTTER_MAX, y)
       /\ events' = <<Event("setStutter", <<x, y>>, now)>>
  /\ UNCHANGED <<pattern, playback, tempo, swing, callbacks, evolveMode, call, currentFillType, timeouts, clock, pc, run>>

SetStutter == setStutter(StutterInputs)

\* The setters called with any number, NaN included.
SetTempoNumber == setTempo(TempoInputs \cup {TEMPO_DEFAULT, NaN})
SetSwingNumber == setSwing(SwingInputs \cup {NaN})
SetStutterNumber == setStutter(StutterInputs \cup {NaN})

SetEvolveMode ==
  /\ pc = "idle"
  /\ edits < MaxCalls
  /\ edits' = edits + 1
  /\ \E enabled \in BOOLEAN : evolveMode' = enabled
  /\ events' = <<>>
  /\ UNCHANGED <<pattern, playback, tempo, swing, callbacks, stutter, currentFillType, timeouts,
                 clock, pc, run, call>>

SetStepCallback ==
  /\ pc = "idle"
  /\ edits < MaxCalls
  /\ edits' = edits + 1
  /\ \E callback \in BOOLEAN : onStepChange' = callback
  /\ events' = <<>>
  /\ UNCHANGED <<pattern, playback, tempo, swing, onPatternChange, evolveMode, call, currentFillType, stutter, timeouts, clock, pc, run>>

SetPatternCallback ==
  /\ pc = "idle"
  /\ edits < MaxCalls
  /\ edits' = edits + 1
  /\ \E callback \in BOOLEAN : onPatternChange' = callback
  /\ events' = <<>>
  /\ UNCHANGED <<pattern, playback, tempo, swing, onStepChange, evolveMode, call, currentFillType, stutter, timeouts, clock, pc, run>>

\* ---------------------------------------------------------- pattern store
\* The indices wrapped into the grid instead of being refused.
toggleStepWrapped(p, track, step) ==
  [p EXCEPT ![track % TRACKS][step % STEPS] = (@ + 1) % (MAX_SUBDIV + 1)]

toggleStep(p, track, step) ==
  IF track < 0 \/ track >= TRACKS \/ step < 0 \/ step >= STEPS THEN p
  ELSE [p EXCEPT ![track][step] = (p[track][step] + 1) % (MAX_SUBDIV + 1)]

\* The value stored as given.
setStepUnclamped(p, track, step, value) ==
  IF track < 0 \/ track >= TRACKS \/ step < 0 \/ step >= STEPS THEN p
  ELSE [p EXCEPT ![track][step] = value]

\* setStep(track, step, value)
setStep(p, track, step, value) ==
  IF track < 0 \/ track >= TRACKS \/ step < 0 \/ step >= STEPS THEN p
  ELSE [p EXCEPT ![track][step] = clamp(0, MAX_SUBDIV, value)]

\* getStepValue(track, step), of the pattern p
getStepValue(p, track, step) ==
  IF track < 0 \/ track >= TRACKS \/ step < 0 \/ step >= STEPS THEN 0
  ELSE p[track][step]

ToggleStep ==
  /\ pc = "idle"
  /\ edits < MaxCalls
  /\ \E cell \in EditCells :
       /\ pattern' = toggleStep(pattern, cell[1], cell[2])
       /\ events' = <<Event("toggleStep", cell, now),
                      Event("return", getStepValue(pattern', cell[1], cell[2]), now)>>
  /\ edits' = edits + 1
  /\ UNCHANGED <<playback, tempo, swing, callbacks, evolveMode, call, currentFillType, stutter, timeouts, clock, pc, run>>

SetStep ==
  /\ pc = "idle"
  /\ edits < MaxCalls
  /\ \E cell \in EditCells, value \in EditValues :
       /\ pattern' = setStep(pattern, cell[1], cell[2], value)
       /\ events' = <<Event("setStep", cell, now)>>
  /\ edits' = edits + 1
  /\ UNCHANGED <<playback, tempo, swing, callbacks, evolveMode, call, currentFillType, stutter, timeouts, clock, pc, run>>

GetStepValue ==
  /\ pc = "idle"
  /\ edits < MaxCalls
  /\ \E cell \in EditCells :
       events' = <<Event("getStepValue", cell, now),
                   Event("return", getStepValue(pattern, cell[1], cell[2]), now)>>
  /\ edits' = edits + 1
  /\ UNCHANGED <<pattern, playback, tempo, swing, callbacks, evolveMode, call, currentFillType, stutter, timeouts, clock, pc, run>>

ClearPattern ==
  /\ pc = "idle"
  /\ edits < MaxCalls
  /\ pattern' = EmptyPattern
  /\ events' = <<Event("clearPattern", 0, now)>>
  /\ edits' = edits + 1
  /\ UNCHANGED <<playback, tempo, swing, callbacks, evolveMode, call, currentFillType, stutter, timeouts, clock, pc, run>>

\* applyFill(): move on to the next type, apply it, return it.
\* applyFill() with the draws of one of the given tapes.
applyFill(tapes) ==
  /\ pc = "idle"
  /\ edits < MaxCalls
  /\ currentFillType' = nextFillType(currentFillType)
  /\ \E tape \in tapes : pattern' = fillFunctions(pattern, currentFillType', tape)
  /\ events' = <<Event("applyFill", currentFillType', now)>>
  /\ edits' = edits + 1
  /\ UNCHANGED <<playback, tempo, swing, callbacks, evolveMode, call, stutter, timeouts, clock, pc, run>>

ApplyFill == applyFill(FillTapes)

\* applyFillType(type) with the draws of one of the given tapes.
applyFillType(tapes) ==
  /\ pc = "idle"
  /\ edits < MaxCalls
  /\ \E type \in FillTypes, tape \in tapes :
       /\ currentFillType' = type
       /\ pattern' = fillFunctions(pattern, type, tape)
       /\ events' = <<Event("applyFillType", type, now)>>
  /\ edits' = edits + 1
  /\ UNCHANGED <<playback, tempo, swing, callbacks, evolveMode, call, stutter, timeouts, clock, pc, run>>

ApplyFillType == applyFillType(FillTapes)

\* The fills on any of the tapes.
ApplyFillDrawn == applyFill(FillTapes \cup FillDraws)
ApplyFillTypeDrawn == applyFillType(FillTapes \cup FillDraws)

\* ------------------------------------------------------------- lifecycle
\* Without the check that the sequencer is already playing.
startRefusedUnlessReady == ~isAudioReady \/ ~getAudioContext

\* Without the check that the clock is ready.
startRefusedIfPlaying == isPlaying \/ ~getAudioContext

\* The guards of startSequencer: already playing, or the clock not ready.
startRefused == isPlaying \/ ~isAudioReady \/ ~getAudioContext

\* startSequencer(), without what it reports.
startSequencer ==
  IF startRefused
  THEN UNCHANGED <<playback, run>>
  ELSE /\ isPlaying' = TRUE
       /\ currentStep' = 0
       /\ nextStepTime' = now + INITIAL_DELAY
       /\ schedulerInterval' = setInterval(intervals)
       /\ intervals' = intervals \cup {schedulerInterval'}
       /\ intervalDue' = now + SCHEDULE_AHEAD
       /\ run' = [NoRun EXCEPT !.start = now, !.resumed = run.resumed]

\* The timer left registered.
stopTimersKept == intervals

\* The timers left after stopSequencer's clearInterval.
stopTimers ==
  IF schedulerInterval # NULL THEN clearInterval(intervals, schedulerInterval)
  ELSE intervals

\* The observer not told.
stopEventsSilent == <<>>

\* What stopSequencer() calls: the step-change observer, with -1, if one is
\* registered and the sequencer was playing.
stopEvents ==
  IF isPlaying /\ onStepChange THEN <<Event("onStepChange", -1, now)>> ELSE <<>>

\* stopSequencer(), without what it reports.
stopSequencer ==
  IF ~isPlaying
  THEN UNCHANGED <<playback, run>>
  ELSE /\ isPlaying' = FALSE
       /\ currentStep' = 0
       /\ intervals' = stopTimers
       /\ intervalDue' = 0
       /\ schedulerInterval' = NULL
       /\ run' = [run EXCEPT !.resumed = currentStep # 0]
       /\ UNCHANGED nextStepTime

StartSequencer ==
  /\ pc = "idle"
  /\ edits < MaxCalls
  /\ edits' = edits + 1
  /\ startSequencer
  /\ events' = <<Event("startSequencer", 0, now)>>
  /\ UNCHANGED <<pattern, tempo, swing, callbacks, evolveMode, call, currentFillType, stutter, timeouts, clock, pc>>

StopSequencer ==
  /\ pc = "idle"
  /\ edits < MaxCalls
  /\ edits' = edits + 1
  /\ stopSequencer
  /\ events' = <<Event("stopSequencer", 0, now)>> \o stopEvents
  /\ UNCHANGED <<pattern, tempo, swing, callbacks, evolveMode, call, currentFillType, stutter, timeouts, clock, pc>>

\* toggleSequencer(): stop when playing, start otherwise; it returns isPlaying.
ToggleSequencer ==
  /\ pc = "idle"
  /\ edits < MaxCalls
  /\ edits' = edits + 1
  /\ IF isPlaying
     THEN /\ stopSequencer
          /\ events' = <<Event("toggleSequencer", 0, now)>> \o stopEvents
                          \o <<Event("return", IF isPlaying' THEN 1 ELSE 0, now)>>
     ELSE /\ startSequencer
          /\ events' = <<Event("toggleSequencer", 0, now), Event("return", IF isPlaying' THEN 1 ELSE 0, now)>>
  /\ UNCHANGED <<pattern, tempo, swing, callbacks, evolveMode, call, currentFillType, stutter, timeouts, clock, pc>>

\* ------------------------------------------------------------- scheduler
\* The timer fires and scheduler() is entered: it returns at once when there
\* is no context or the sequencer is not playing.
\* With timed, the record of the run keeps the longest time a tick of the
\* run has fired after the tick before it (the first after the start), as
\* far as it is less than LOOKAHEAD, and how many steps the run had
\* dispatched when the tick began.
tickBegin(timed) ==
  /\ pc = "idle"
  /\ tickDue
  /\ intervalDue' = now + SCHEDULE_AHEAD
  /\ pc' = IF ~getAudioContext \/ ~isPlaying THEN "idle" ELSE "loop"
  /\ events' = <<>>
  /\ run' = IF timed
            THEN [run EXCEPT !.gap = Min(LOOKAHEAD, Max(@, now - (intervalDue - SCHEDULE_AHEAD))),
                             !.before = run.n]
            ELSE run
  /\ UNCHANGED <<pattern, isPlaying, currentStep, schedulerInterval, nextStepTime, intervals, params, callbacks, evolveMode, call, currentFillType, stutter, timeouts, clock>>

TickBegin == tickBegin(FALSE)

TickBeginTimed == tickBegin(TRUE)

\* scheduleStutter(track, startTime, stepDuration, baseVelocity): numStutters
\* repeats, stutterInterval apart; the draw at k picks their number.  Each
\* repeat takes one more draw, for its velocity.
\* Every subdivision twice as fine.
divisionsFiner == <<4, 8, 16, 32>>

divisions == <<2, 4, 8, 16>>

maxStutters == 2 + (stutterRate * 6) \div STUTTER_MAX

numStutters(tape, k) == RandInt(Draw(tape, k), maxStutters) + 1

scheduleStutter(track, startTime, duration, tape, k) ==
  LET divIndex == Min((stutterRate * 4) \div STUTTER_MAX, 3)
      subdivision == divisions[divIndex + 1]
      stutterInterval == over(duration, subdivision)
  IN  [i \in 1 .. numStutters(tape, k) |->
         Event("triggerDrum", track, plus(startTime, times(stutterInterval, i)))]

\* The stutter test of scheduleStep; Math.random() is drawn only when rate and
\* chance are both above 0.05.
stutterArmed == stutterRate * 100 > 5 * STUTTER_MAX /\ stutterChance * 100 > 5 * STUTTER_MAX

stutterHit(tape, k) == Draw(tape, k) * STUTTER_MAX < stutterChance * RandScale

\* The draws one track of scheduleStep reads from position k on: the base
\* velocity, the stutter test, and the draws of scheduleStutter.
trackDraws(subdiv, tape, k) ==
  IF subdiv = 0 THEN 0
  ELSE IF ~stutterArmed THEN 1
  ELSE IF ~stutterHit(tape, k + 1) THEN 2
  ELSE 3 + numStutters(tape, k + 2)

\* One hit whatever the subdivision.
subHitsOnce(track, subdiv, time, bpm) ==
  IF subdiv > 0 THEN <<Event("triggerDrum", track, time)>> ELSE <<>>

\* The subdivided hits of one track: subdiv requests, interval apart.
subHits(track, subdiv, time, bpm) ==
  LET interval == IF subdiv > 0 THEN over(stepDuration(bpm), subdiv) ELSE 0
  IN  [i \in 1 .. subdiv |-> Event("triggerDrum", track, plus(time, times(i - 1, interval)))]

\* The requests scheduleStep(step, time) sends to triggerDrum, track by track:
\* subdiv hits, interval = stepDuration / subdiv apart, then the stutter
\* repeats.  Velocities are not modelled; their draws are read.
RECURSIVE triggers(_, _, _, _, _, _, _)
triggers(p, track, step, time, bpm, tape, k) ==
  IF track >= TRACKS THEN <<>>
  ELSE LET subdiv == p[track][step]
           hits == subHits(track, subdiv, time, bpm)
           repeats == IF subdiv > 0 /\ stutterArmed /\ stutterHit(tape, k + 1)
                      THEN scheduleStutter(track, time, stepDuration(bpm), tape, k + 2)
                      ELSE <<>>
       IN  hits \o repeats
             \o triggers(p, track + 1, step, time, bpm, tape, k + trackDraws(subdiv, tape, k))

\* The playhead notification scheduleStep defers with setTimeout.
stepNotice(step, time) ==
  IF getAudioContext /\ onStepChange
  THEN <<Event("setTimeout", step, now + Max(0, time - now))>>
  ELSE <<>>

scheduleStep(step, time, tape) ==
  <<Event("scheduleStep", step, time)>> \o stepNotice(step, time)
    \o triggers(pattern, 0, step, time, tempo, tape, 1)

\* The cursor wrapped one step early.
advanceStepEarlyWrap(step) == (step + 1) % (STEPS - 1)

\* currentStep = (currentStep + 1) % STEPS
advanceStep(step) == (step + 1) % STEPS

\* The step handed over after the cursor has moved on.
scheduledStepAdvanced == advanceStep(currentStep)

\* The step scheduled against the tick's clock reading.
scheduledTimeNow == now

\* scheduleStep(currentStep, nextStepTime): the step and the time handed over.
scheduledStep == currentStep

scheduledTime == nextStepTime

\* The evolve flag not consulted.
loopCompletedAnyMode(prevStep, step) == prevStep = STEPS - 1 /\ step = 0

\* The loop completed: prevStep was the last step and the index wrapped.
loopCompleted(prevStep, step) == evolveMode /\ prevStep = STEPS - 1 /\ step = 0

\* The callbacks a handler step handed to setTimeout, in the order of the
\* calls; each is kept as its "setTimeout" event: x is the step to report
\* (-2 for the pattern observer) and t the time it is due.
isDeferred(e) == e.ev = "setTimeout"

deferred(evs) == SelectSeq(evs, isDeferred)

\* The pattern observer called from inside the loop.
patternNoticeInline ==
  IF onPatternChange THEN <<Event("onPatternChange", -2, now)>> ELSE <<>>

\* The pattern notification scheduler() defers with setTimeout(..., 0).
patternNotice ==
  IF onPatternChange THEN <<Event("setTimeout", -2, now)>> ELSE <<>>

\* A window half as long as the tick period.
inWindowShort(time) == less(time, now + SCHEDULE_AHEAD \div 2)

\* The window test held also by a target time at the end of the window.
inWindowClosed(time) == time <= now + LOOKAHEAD

\* nextStepTime < ctx.currentTime + LOOKAHEAD
inWindow(time) == less(time, now + LOOKAHEAD)

\* One iteration of the while loop of scheduler(), scheduleStep drawing from
\* one of the given tapes.
tickStep(tapes) ==
  /\ pc = "loop"
  /\ inWindow(nextStepTime)
  /\ nextStepTime' = plus(nextStepTime, plus(stepDuration(tempo), swingOffset(currentStep, tempo, swing)))
  /\ currentStep' = advanceStep(currentStep)
  /\ run' = [run EXCEPT !.n = @ + 1, !.step = scheduledStep, !.time = scheduledTime]
  /\ \E stepTape \in tapes :
       IF loopCompleted(currentStep, currentStep')
       THEN /\ \E tape \in SchedTapes : pattern' = mutatePattern(pattern, tape)
            /\ events' = scheduleStep(scheduledStep, scheduledTime, stepTape)
                          \o <<Event("mutatePattern", 0, now)>>
                          \o patternNotice
       ELSE /\ pattern' = pattern
            /\ events' = scheduleStep(scheduledStep, scheduledTime, stepTape)
  /\ timeouts' = timeouts \o deferred(events')
  /\ UNCHANGED <<isPlaying, schedulerInterval, intervals, intervalDue, params, callbacks,
                 evolveMode, call, currentFillType, stutter, clock, pc>>

TickStep == tickStep(StepTapes)

\* The iteration on any of the tapes.
TickStepDrawn == tickStep(StepTapes \cup DispatchTapes)

\* The while condition fails and scheduler() returns.
TickEnd ==
  /\ pc = "loop"
  /\ ~inWindow(nextStepTime)
  /\ pc' = "idle"
  /\ events' = <<>>
  /\ UNCHANGED <<pattern, playback, params, callbacks, evolveMode, call, currentFillType, stutter, timeouts, clock, run>>

\* The pending callback the browser runs next: the one due first, the oldest
\* of those due together.
nextTimeout ==
  CHOOSE i \in DOMAIN timeouts :
    \A j \in DOMAIN timeouts :
      timeouts[i].t < timeouts[j].t \/ (timeouts[i].t = timeouts[j].t /\ i <= j)

\* What a deferred callback does when it runs: onStepChange!(step) or
\* onPatternChange!(), a TypeError when the observer has become null.
deferredCall(timer) ==
  IF timer.x = -2
  THEN (IF onPatternChange THEN <<Event("onPatternChange", timer.x, now)>>
                           ELSE <<Event("TypeError", timer.x, now)>>)
  ELSE (IF onStepChange THEN <<Event("onStepChange", timer.x, now)>>
                        ELSE <<Event("TypeError", timer.x, now)>>)

\* A deferred callback runs: never inside another handler, never before it
\* is due.
Timeout ==
  /\ pc = "idle"
  /\ timeouts # <<>>
  /\ timeouts[nextTimeout].t <= now
  /\ timeouts' = splice(timeouts, nextTimeout - 1)
  /\ events' = <<Event("timeout", timeouts[nextTimeout].x, timeouts[nextTimeout].t)>>
                 \o deferredCall(timeouts[nextTimeout])
  /\ UNCHANGED <<pattern, playback, params, callbacks, evolveMode, call, currentFillType, stutter, clock, pc, run>>

\* The module as loaded, but for the pattern.
Loaded ==
  /\ isPlaying = FALSE
  /\ tempo = TEMPO_DEFAULT
  /\ swing = 0
  /\ currentStep = 0
  /\ evolveMode = FALSE
  /\ stutterRate = 0
  /\ stutterChance = 0
  /\ currentFillType = "euclidean"
  /\ schedulerInterval = NULL
  /\ nextStepTime = 0
  /\ onStepChange = FALSE
  /\ onPatternChange = FALSE
  /\ audioState = "none"
  /\ now = 0
  /\ intervals = {}
  /\ intervalDue = 0
  /\ pc = "idle"
  /\ run = NoRun
  /\ events = <<>>
  /\ edits = 0
  /\ timeouts = <<>>

\* The module as loaded.
Constructed == pattern = EmptyPattern /\ Loaded

NoArgs == [hits |-> 0, steps |-> 0]

NoResult == [calls |-> 0, out |-> <<>>]

Init == Constructed /\ args = NoArgs /\ result = NoResult

\* euclidean(hits, steps), called on the arguments drawn at the start.
Euclidean ==
  /\ result' = [calls |-> Min(result.calls + 1, 2), out |-> euclidean(args.hits, args.steps)]
  /\ UNCHANGED <<pattern, playback, params, callbacks, evolveMode, currentFillType, stutter,
                 timeouts, clock, pc, run, events, args>>


\* The scheduler under tempo and swing changes.
Next ==
  \/ InitAudio
  \/ ResumeAudio
  \/ AdvanceClock
  \/ SetTempo
  \/ SetSwing
  \/ StartSequencer
  \/ StopSequencer
  \/ ToggleSequencer
  \/ TickBegin
  \/ TickStep
  \/ TickEnd

Spec == Init /\ [][Next]_vars

\* The scheduler with evolve mode, the observers and pattern edits.
NextEvolve ==
  \/ InitAudio
  \/ ResumeAudio
  \/ AdvanceClock
  \/ SetEvolveMode
  \/ SetStepCallback
  \/ SetPatternCallback
  \/ ToggleStep
  \/ StartSequencer
  \/ StopSequencer
  \/ ToggleSequencer
  \/ TickBegin
  \/ TickStep
  \/ TickEnd
  \/ Timeout

SpecEvolve == Init /\ [][NextEvolve]_vars

\* The pattern store: edits, fills and the mutations of evolve mode.
NextPattern ==
  \/ InitAudio
  \/ ResumeAudio
  \/ AdvanceClock
  \/ SetEvolveMode
  \/ ToggleStep
  \/ SetStep
  \/ ClearPattern
  \/ ApplyFill
  \/ ApplyFillType
  \/ StartSequencer
  \/ TickBegin
  \/ TickStep
  \/ TickEnd

SpecPattern == Init /\ [][NextPattern]_vars

\* The pattern store alone: edits, reads and fills while stopped.
NextStore ==
  \/ ToggleStep
  \/ SetStep
  \/ GetStepValue
  \/ ClearPattern
  \/ ApplyFill
  \/ ApplyFillType

SpecStore == Init /\ [][NextStore]_vars

\* mutatePattern() on the pattern as it stands, for a tape of the given ones,
\* while fewer than limit cycles have run.  args keeps the pattern the cycle
\* started from, result the number of active cells at the start and after
\* each cycle.
\* (args is the start pattern until the first cycle.)
mutate(tapes, limit) ==
  /\ pc = "idle"
  /\ result.calls < limit
  /\ \E tape \in tapes :
       /\ pattern' = mutatePattern(pattern, tape)
       /\ events' = <<Event("mutatePattern", tape, now)>>
  /\ args' = pattern
  /\ result' = [calls |-> result.calls + 1,
                out |-> Append(result.out, activeCount(pattern'))]
  /\ UNCHANGED <<playback, params, callbacks, evolveMode, currentFillType, stutter,
                 timeouts, clock, pc, run>>

Mutate == mutate(MutateTapes, MaxCycles)

\* Mutation cycles from any of the start patterns.
InitMutate ==
  /\ Loaded
  /\ pattern \in MutateStarts
  /\ args = pattern
  /\ result = [calls |-> 0, out |-> <<activeCount(pattern)>>]

NextMutate == Mutate

Drift == mutate(DriftTapes, MaxDrift)

\* A long run of mutation cycles from a pattern at or below the soft cap.
InitDrift ==
  /\ Loaded
  /\ pattern \in DriftStarts
  /\ args = pattern
  /\ result = [calls |-> 0, out |-> <<activeCount(pattern)>>]

NextDrift == Drift

SpecDrift == InitDrift /\ [][NextDrift]_vars

SpecMutate == InitMutate /\ [][NextMutate]_vars

\* The patterns the fills are applied to: every cell of subdivision 3, the
\* values 0 to 4 on tracks 0 to 2, and the empty pattern.
FillStarts == {prefix(TRACKS * STEPS, 3), ramps, EmptyPattern}

\* The fills alone, from any of the start patterns; args keeps the start
\* pattern.
InitFill ==
  /\ Loaded
  /\ pattern \in FillStarts
  /\ args = pattern
  /\ result = NoResult

NextFill ==
  \/ ApplyFillDrawn
  \/ ApplyFillTypeDrawn

SpecFill == InitFill /\ [][NextFill]_vars

\* The patterns a dispatch run plays: the values 0 to 4 on tracks 0 to 2, six
\* rows of which the first three are full of subdivision 3, and no cell.
DispatchStarts == {ramps, prefix(3 * STEPS, 3), EmptyPattern}

\* The dispatch of steps alone: the module with a pattern, a tempo and a
\* stutter setting in place and a running audio context.
InitDispatch ==
  /\ pattern \in DispatchStarts
  /\ tempo \in DispatchTempos
  /\ \E setting \in DispatchStutter :
       stutterRate = setting[1] /\ stutterChance = setting[2]
  /\ audioState = "running"
  /\ isPlaying = FALSE /\ swing = 0 /\ currentStep = 0 /\ evolveMode = FALSE
  /\ currentFillType = "euclidean" /\ schedulerInterval = NULL /\ nextStepTime = 0
  /\ onStepChange = FALSE /\ onPatternChange = FALSE
  /\ now = 0 /\ intervals = {} /\ intervalDue = 0 /\ pc = "idle"
  /\ run = NoRun /\ events = <<>> /\ timeouts = <<>>
  /\ edits = MaxCalls - 1   \* the setters have been called; one call is left
  /\ args = NoArgs /\ result = NoResult

NextDispatch ==
  \/ AdvanceClock
  \/ StartSequencer
  \/ TickBegin
  \/ TickStepDrawn
  \/ TickEnd

SpecDispatch == InitDispatch /\ [][NextDispatch]_vars

\* The scheduler under timer jitter: the module with a tempo in place, a
\* running audio context and an empty pattern; one call is left, the start.
InitJitter ==
  /\ pattern = EmptyPattern
  /\ tempo \in DispatchTempos
  /\ stutterRate = 0 /\ stutterChance = 0
  /\ audioState = "running"
  /\ isPlaying = FALSE /\ swing = 0 /\ currentStep = 0 /\ evolveMode = FALSE
  /\ currentFillType = "euclidean" /\ schedulerInterval = NULL /\ nextStepTime = 0
  /\ onStepChange = FALSE /\ onPatternChange = FALSE
  /\ now = 0 /\ intervals = {} /\ intervalDue = 0 /\ pc = "idle"
  /\ run = NoRun /\ events = <<>> /\ timeouts = <<>>
  /\ edits = MaxCalls - 1
  /\ args = NoArgs /\ result = NoResult

NextJitter ==
  \/ AdvanceClockJitter
  \/ StartSequencer
  \/ TickBeginTimed
  \/ TickStep
  \/ TickEnd

SpecJitter == InitJitter /\ [][NextJitter]_vars

\* The scheduler under any tempo the setter lets through and under late
\* ticks: the module as loaded, with a running audio context.
InitTempo ==
  /\ pattern = EmptyPattern
  /\ tempo = TEMPO_DEFAULT
  /\ stutterRate = 0 /\ stutterChance = 0
  /\ audioState = "running"
  /\ isPlaying = FALSE /\ swing = 0 /\ currentStep = 0 /\ evolveMode = FALSE
  /\ currentFillType = "euclidean" /\ schedulerInterval = NULL /\ nextStepTime = 0
  /\ onStepChange = FALSE /\ onPatternChange = FALSE
  /\ now = 0 /\ intervals = {} /\ intervalDue = 0 /\ pc = "idle"
  /\ run = NoRun /\ events = <<>> /\ timeouts = <<>>
  /\ edits = 0
  /\ args = NoArgs /\ result = NoResult

NextTempo ==
  \/ AdvanceClock
  \/ SetTempoNumber
  \/ StartSequencer
  \/ TickBeginTimed
  \/ TickStep
  \/ TickEnd

SpecTempo == InitTempo /\ [][NextTempo]_vars

\* The setters alone, on any number.
NextSetters ==
  \/ SetTempoNumber
  \/ SetSwingNumber
  \/ SetStutterNumber

SpecSetters == Init /\ [][NextSetters]_vars

\* euclidean on every (hits, steps) up to MaxEuclid steps, hits from below 0
\* to above steps.
InitEuclidean ==
  /\ Constructed
  /\ args \in [hits : -1 .. MaxEuclid + 1, steps : 0 .. MaxEuclid]
  /\ result = NoResult

NextEuclidean == Euclidean

SpecEuclidean == InitEuclidean /\ [][NextEuclidean]_vars

\* ================================================================ claims
\* The handler whose call the last step was, "" when it was none of the three
\* lifecycle calls.
Called(evs) == IF evs = <<>> THEN "" ELSE evs[1].ev

\* How many events of this kind and argument a handler step emitted.
Count(evs, kind, x) ==
  Cardinality({i \in DOMAIN evs : evs[i].ev = kind /\ evs[i].x = x})

CountKind(evs, kind) == Cardinality({i \in DOMAIN evs : evs[i].ev = kind})

\* C1: while the sequencer runs, the n-th step it dispatches is step
\* (n - 1) mod 16, whenever the ticks arrive: the dispatched indices are
\* 0, 1, ..., 15, 0, ... with none skipped or repeated, and the step cursor
\* is always the successor of the last dispatched index.
C1_StepOrder ==
  run.n > 0 =>
    /\ run.step = (run.n - 1) % STEPS
    /\ isPlaying => currentStep = (run.step + 1) % STEPS

\* A tick that came late has dispatched several steps in one go, past a wrap.
C1_Witness == pc = "loop" /\ run.n > STEPS /\ run.step = 0 /\ run.time < now

\* The time that passes from the first step of a run to its k-th later step at
\* a constant tempo and swing: k step durations, and the swing offset once for
\* each odd step among them.
elapsed(k, bpm, sw) ==
  ((60 * SECOND) \div (bpm * 4)) * k + (k \div 2) * ((((60 * SECOND) \div (bpm * 4)) * sw * 3) \div 100)

\* C2: the target time and index of the n-th dispatched step of a run are
\* fixed by the clock at the start, the tempo and the swing alone (as long as
\* those two are not changed), so two runs that differ only in when their ticks
\* arrive dispatch the same steps at the same target times; the target time is
\* never the tick's clock reading.
C2_TargetTimeIndependentOfTicks ==
  (run.n > 0 /\ run.steady) =>
    /\ run.step = (run.n - 1) % STEPS
    /\ run.time = run.start + INITIAL_DELAY + elapsed(run.n - 1, tempo, swing)

\* A step dispatched by a late tick: its target time is behind the clock.
C2_Witness == pc = "loop" /\ run.steady /\ run.n > 2 /\ swing > 0 /\ run.time < now

\* C3: startSequencer while running and stopSequencer while stopped change
\* neither the playing flag, the step index, nextStepTime nor the timer
\* registration, register no second timer and do not call the observer.
C3_RedundantCallsAreNoOps ==
  [][((Called(events') = "startSequencer" /\ isPlaying)
        \/ (Called(events') = "stopSequencer" /\ ~isPlaying))
      => /\ UNCHANGED <<isPlaying, currentStep, nextStepTime, schedulerInterval, intervals>>
         /\ Cardinality(intervals') <= 1
         /\ Len(events') = 1]_vars

\* startSequencer was called in a run that had already dispatched steps and
\* has an observer.
C3_Witness ==
  /\ Called(events) = "startSequencer"
  /\ isPlaying /\ onStepChange /\ run.n > 0 /\ currentStep > 0

\* C4: startSequencer, or toggleSequencer from Stopped, while the audio
\* clock is not ready changes nothing: the sequencer stays stopped, no timer
\* is registered, and toggleSequencer returns false.
C4_StartNotReady ==
  [][(Called(events') \in {"startSequencer", "toggleSequencer"}
        /\ ~isPlaying /\ ~isAudioReady)
      => /\ UNCHANGED <<pattern, playback, tempo, swing, callbacks, evolveMode, call, currentFillType, stutter, timeouts,
                        clock, pc, run>>
         /\ ~isPlaying'
         /\ intervals' = {}
         /\ Called(events') = "toggleSequencer"
              => events' = <<Event("toggleSequencer", 0, now), Event("return", 0, now)>>]_vars

\* toggleSequencer was called with a suspended context and returned false.
C4_Witness ==
  /\ Called(events) = "toggleSequencer"
  /\ audioState = "suspended"
  /\ ~isPlaying
  /\ events[2] = Event("return", 0, now)

\* C5: a stop of a running sequencer (by stopSequencer or toggleSequencer)
\* calls the registered step-change observer with -1 exactly once, and leaves
\* the step index 0 and the playing flag false.
C5_StopNotifiesOnce ==
  [][(Called(events') \in {"stopSequencer", "toggleSequencer"} /\ isPlaying)
      => /\ ~isPlaying'
         /\ currentStep' = 0
         /\ CountKind(events', "onStepChange") = (IF onStepChange THEN 1 ELSE 0)
         /\ Count(events', "onStepChange", -1) = (IF onStepChange THEN 1 ELSE 0)]_vars

\* A run with an observer was stopped after it had moved off step 0.
C5_Witness ==
  /\ Called(events) = "stopSequencer"
  /\ run.resumed
  /\ Count(events, "onStepChange", -1) = 1

\* C6: while the sequencer is stopped no timer is registered, the scheduler
\* is not inside its loop, and no handler dispatches a step or sends a
\* synthesis request.
C6_StoppedIsSilent ==
  ~isPlaying =>
    /\ intervals = {}
    /\ schedulerInterval = NULL
    /\ pc = "idle"
    /\ CountKind(events, "scheduleStep") = 0
    /\ CountKind(events, "triggerDrum") = 0

\* Stopped after a run, with an active cell, and the clock past the time the
\* next step was due.
C6_Witness ==
  /\ ~isPlaying
  /\ run.n > 0
  /\ pattern[0][0] > 0
  /\ nextStepTime + LOOKAHEAD < now

\* C7: the first step a run dispatches is step 0, also when the run before
\* it was stopped in the middle of the loop.
C7_FirstStepIsZero ==
  [][(run'.n = 1 /\ run.n = 0) => (run'.step = 0 /\ currentStep = 0)]_vars

\* The first dispatch of a run that follows one stopped off step 0.
C7_Witness == run.n = 1 /\ run.resumed /\ run.step = 0

\* C8: dispatching a step advances nextStepTime by 60/tempo/4 seconds after
\* an even step and by that plus 0.3 * swing of it after an odd step; the
\* extra is 0 at swing 0 and grows with the swing.
C8_Advance ==
  [][run'.n = run.n + 1 =>
       tempo * 4 * 100 * (nextStepTime' - nextStepTime)
         = 60 * SECOND * (100 + (IF run'.step % 2 = 1 THEN 3 * swing ELSE 0))]_vars

\* An odd step was dispatched with swing, and an even one.
C8_Witness ==
  /\ pc = "loop"
  /\ swing = 5
  /\ run.n > 0
  /\ run.step % 2 = 1
  /\ nextStepTime - run.time > (60 * SECOND) \div (tempo * 4)

\* C9: at a constant tempo, step 0 of the second loop is 16 step durations
\* after step 0 of the first, whatever the swing.
C9_SwingKeepsTempo ==
  (run.steady /\ run.n = STEPS + 1) =>
    run.time = run.start + INITIAL_DELAY + STEPS * ((60 * SECOND) \div (tempo * 4))

\* C10: a scheduler step invokes the mutation engine exactly once when it
\* has dispatched step 15 with evolve mode on, and never otherwise; with
\* evolve mode off the scheduler changes no pattern cell.
C10_MutateOncePerWrap ==
  [][/\ CountKind(events', "mutatePattern")
          = (IF run'.n = run.n + 1 /\ run'.step = STEPS - 1 /\ evolveMode THEN 1 ELSE 0)
     /\ (pattern' # pattern /\ edits' = edits)
          => (evolveMode /\ run'.n = run.n + 1 /\ run'.step = STEPS - 1)]_vars

\* The loop wrapped with evolve mode on and the mutation changed the pattern.
C10_Witness ==
  /\ CountKind(events, "mutatePattern") = 1
  /\ run.step = STEPS - 1
  /\ currentStep = 0
  /\ pattern # EmptyPattern

\* The pattern notifications waiting in the browser's timer queue.
pendingNotices(queue) == Count(queue, "setTimeout", -2)

\* The last step was the deferred pattern notification being run.
noticeRun(evs) == Called(evs) = "timeout" /\ evs[1].x = -2

\* C11: a scheduler step that wraps the loop with evolve mode on and a
\* pattern observer registered queues exactly one pattern notification and
\* no other step queues one; the observer is never called by a scheduler
\* step, only by a timer callback that runs while no handler is running, once
\* per queued notification; and a queued notification is due at once, so
\* that the browser runs it as soon as the tick has returned.
C11_PatternNoticeDeferred ==
  /\ [][/\ pendingNotices(timeouts') + (IF noticeRun(events') THEN 1 ELSE 0)
            = pendingNotices(timeouts)
                + (IF pc = "loop" /\ currentStep = STEPS - 1 /\ currentStep' = 0
                      /\ evolveMode /\ onPatternChange THEN 1 ELSE 0)
        /\ CountKind(events', "onPatternChange")
            = (IF noticeRun(events') /\ onPatternChange THEN 1 ELSE 0)
        /\ noticeRun(events') => (pc = "idle" /\ pc' = "idle")]_vars
  /\ [](pendingNotices(timeouts) > 0
          => (pc = "loop" \/ (pc = "idle" /\ timeouts[nextTimeout].t <= now)))

\* The observer has just been told, by the timer, of a mutation made by a
\* tick that has returned.
C11_Witness ==
  /\ noticeRun(events)
  /\ Count(events, "onPatternChange", -2) = 1
  /\ pc = "idle"
  /\ pattern # EmptyPattern

\* C12: in every state reached by toggleStep, setStep, clearPattern,
\* applyFill, applyFillType and the mutations of evolve mode, the pattern is a
\* grid of TRACKS tracks by STEPS steps whose cells are integers in
\* 0 .. MAX_SUBDIV.
C12_PatternInGrid ==
  /\ DOMAIN pattern = Tracks
  /\ \A t \in Tracks :
       /\ DOMAIN pattern[t] = Steps
       /\ \A s \in Steps : pattern[t][s] \in 0 .. MAX_SUBDIV

\* Evolve mode has just mutated a pattern that a fill had made.
C12_Witness ==
  /\ CountKind(events, "mutatePattern") = 1
  /\ currentFillType # "euclidean"
  /\ activeCount(pattern) > 0

\* How many entries of a boolean sequence indexed from 0 are true.
trues(out) == Cardinality({i \in DOMAIN out : out[i]})

\* euclidean has been called on arguments with 0 < hits < steps.
proper == result.calls > 0 /\ 0 < args.hits /\ args.hits < args.steps

\* C13: for 0 < hits < steps, euclidean(hits, steps) has length steps and
\* exactly hits true entries, and a second call returns what the first did.
C13_LengthAndHits ==
  /\ [](proper => /\ DOMAIN result.out = 0 .. args.steps - 1
                  /\ trues(result.out) = args.hits)
  /\ [][(result.calls > 0 /\ result'.calls > result.calls) => result'.out = result.out]_vars

\* euclidean(5, 13) has been called twice.
C13_Witness == result.calls = 2 /\ args.hits = 5 /\ args.steps = 13

\* The canonical sequence of Bjorklund's algorithm: the remainder groups are
\* merged into the leading groups, pair by pair, until at most one remainder
\* group is left.
RECURSIVE Bjorklund(_, _)
Bjorklund(leading, remainder) ==
  IF Len(remainder) <= 1 THEN flat(leading \o remainder)
  ELSE LET m == Min(Len(leading), Len(remainder))
           merged == [i \in 1 .. m |-> leading[i] \o remainder[i]]
           rest == IF Len(leading) > m THEN SubSeq(leading, m + 1, Len(leading))
                   ELSE SubSeq(remainder, m + 1, Len(remainder))
       IN  Bjorklund(merged, rest)

canonical(hits, steps) ==
  Bjorklund([i \in 1 .. hits |-> <<1>>], [i \in 1 .. steps - hits |-> <<0>>])

\* C14: for 0 < hits < steps <= 16, euclidean(hits, steps) is, slot for
\* slot, the canonical Bjorklund sequence.
C14_CanonicalBjorklund ==
  (proper /\ args.steps <= 16) =>
    \A i \in 0 .. args.steps - 1 :
      result.out[i] = (canonical(args.hits, args.steps)[i + 1] = 1)

\* C15: euclidean(3, 8) is [true,false,false,true,false,false,true,false].
C15_ThreeOfEight ==
  (result.calls > 0 /\ args.hits = 3 /\ args.steps = 8) =>
    /\ DOMAIN result.out = 0 .. 7
    /\ \A i \in 0 .. 7 : result.out[i] = (i \in {0, 3, 6})

\* euclidean(3, 8) has been called.
C15_Witness == result.calls > 0 /\ args.hits = 3 /\ args.steps = 8

\* The maximally even sequence: hits at floor(i * steps / hits), i < hits.
even(hits, steps) ==
  [s \in 0 .. steps - 1 |-> \E i \in 0 .. hits - 1 : s = (i * steps) \div hits]

\* C16: for 0 < hits < steps <= 16, euclidean(hits, steps) is a rotation of
\* the maximally even sequence.
C16_EvenlySpread ==
  (proper /\ args.steps <= 16) =>
    \E r \in 0 .. args.steps - 1 :
      \A s \in 0 .. args.steps - 1 :
        result.out[(s + r) % args.steps] = even(args.hits, args.steps)[s]

\* C17: for steps >= 0, euclidean(hits, steps) is steps false values when
\* hits <= 0 and steps true values when hits >= steps.
C17_NoneOrAll ==
  (result.calls > 0 /\ args.steps >= 0) =>
    /\ args.hits <= 0 =>
         /\ DOMAIN result.out = 0 .. args.steps - 1
         /\ \A i \in 0 .. args.steps - 1 : ~result.out[i]
    /\ (args.hits > 0 /\ args.hits >= args.steps) =>
         /\ DOMAIN result.out = 0 .. args.steps - 1
         /\ \A i \in 0 .. args.steps - 1 : result.out[i]

\* euclidean(17, 16) has returned sixteen true values.
C17_Witness ==
  /\ result.calls > 0
  /\ args.hits = MaxEuclid + 1
  /\ args.steps = 16
  /\ trues(result.out) = 16

\* The bound of lo .. hi nearest to the number v, v itself when it is inside.
nearest(lo, hi, v) == IF v < lo THEN lo ELSE IF v > hi THEN hi ELSE v

\* The last action was the call kind(x).
calledWith(evs, kind, x) == Called(evs) = kind /\ evs[1].x = x

\* The same setter call twice in a row.
repeated == Called(events) = Called(events') /\ events[1].x = events'[1].x

\* A setter call stores an argument of the range as it is and one outside it
\* as the nearest bound, and the same call made twice in a row leaves the
\* values as the first call left them.
clampedCall ==
  /\ \A bpm \in TempoInputs :
       calledWith(events', "setTempo", bpm) =>
         tempo' = nearest(TEMPO_MIN, TEMPO_MAX, bpm)
  /\ \A amount \in SwingInputs :
       calledWith(events', "setSwing", amount) =>
         swing' = nearest(SWING_MIN, SWING_MAX, amount)
  /\ \A x \in StutterInputs, y \in StutterInputs :
       calledWith(events', "setStutter", <<x, y>>) =>
         /\ stutterRate' = nearest(STUTTER_MIN, STUTTER_MAX, x)
         /\ stutterChance' = nearest(STUTTER_MIN, STUTTER_MAX, y)
  /\ (events # <<>> /\ events' # <<>> /\ repeated) =>
       /\ tempo' = tempo
       /\ swing' = swing
       /\ stutterRate' = stutterRate
       /\ stutterChance' = stutterChance

\* C18: after any setter calls with any numbers tempo is in [40,200] and
\* swing, stutter rate and stutter chance are in [0,1]; an argument outside
\* the range is replaced by the nearest bound, and repeating a call leaves
\* the value unchanged.
C18_SettersClamp ==
  /\ [](/\ tempo \in TEMPO_MIN .. TEMPO_MAX
        /\ swing \in SWING_MIN .. SWING_MAX
        /\ stutterRate \in STUTTER_MIN .. STUTTER_MAX
        /\ stutterChance \in STUTTER_MIN .. STUTTER_MAX)
  /\ [][clampedCall]_vars

\* The part of it that holds of every call, NaN included.
C18_ClampedCalls == [][clampedCall]_vars

\* setTempo(NaN) has left tempo outside [40,200].
C18_TempoNaN == calledWith(events, "setTempo", NaN) /\ tempo \notin TEMPO_MIN .. TEMPO_MAX

\* A cell outside the grid of 6 tracks by 16 steps.
outside(cell) == cell[1] \notin 0 .. 5 \/ cell[2] \notin 0 .. 15

\* The value the last call returned.
returned(evs) == evs[Len(evs)].x

\* C19: toggleStep, setStep and getStepValue on a track outside 0..5 or a
\* step outside 0..15 leave every cell as it was and raise no error, and
\* toggleStep and getStepValue return 0.
C19_OutsideIgnored ==
  [][(Called(events') \in {"toggleStep", "setStep", "getStepValue"} /\ outside(events'[1].x)) =>
       /\ pattern' = pattern
       /\ CountKind(events', "TypeError") = 0
       /\ Called(events') # "setStep" =>
            (Len(events') = 2 /\ events'[2].ev = "return" /\ returned(events') = 0)]_vars

\* toggleStep(6, 0) on a pattern with active cells.
C19_Witness ==
  /\ calledWith(events, "toggleStep", <<6, 0>>)
  /\ returned(events) = 0
  /\ activeCount(pattern) > 0

\* The strategy after each strategy in the order euclidean, random, glitch.
successor(type) ==
  CASE type = "euclidean" -> "random"
    [] type = "random" -> "glitch"
    [] type = "glitch" -> "euclidean"

\* The strategy the last fill applied: it changes with a fill only.
lastApplied == currentFillType

\* An applyFill call applies and returns the successor of the strategy
\* applied last, and no call other than a fill changes what was applied last.
cycled ==
  /\ Called(events') = "applyFill" =>
       /\ returned(events') = successor(lastApplied)
       /\ lastApplied' = returned(events')
       /\ \E tape \in FillTapes : pattern' = fillFunctions(pattern, returned(events'), tape)
       /\ {returned(events'), successor(returned(events')),
            successor(successor(returned(events')))} = FillTypes
  /\ Called(events') \notin {"applyFill", "applyFillType"} =>
       lastApplied' = lastApplied

\* C20: each applyFill call applies and returns the successor, in the order
\* euclidean, random, glitch, euclidean, ..., of the strategy the previous
\* call applied, so three consecutive calls return each strategy once.
C20_FillCycle ==
  /\ [][cycled]_vars
  /\ [](Called(events) = "applyFillType" => lastApplied = returned(events))

\* The third of three applyFill calls has returned euclidean.
C20_Witness ==
  /\ calledWith(events, "applyFill", "euclidean")
  /\ edits = 3
  /\ \E tape \in FillTapes : pattern = fillEuclidean(tape)

\* What applyFill() would return if it were called now.
nextApplyFill == nextFillType(currentFillType)

\* C21: applyFillType(kind) does not move the fill cycle: the strategy the
\* next applyFill call returns is the one it would have returned without the
\* applyFillType call.
C21_FillTypeKeepsCycle ==
  [][Called(events') = "applyFillType" => nextApplyFill' = nextApplyFill]_vars

\* The step is one mutation cycle.
cycle == Called(events') = "mutatePattern"

\* The cells of the grid.
Cells == Tracks \X Steps

\* The cells of p that are active.
active(p) == {c \in Cells : p[c[1]][c[2]] > 0}

\* The numbers of active cells at the start of the last cycle and after it.
startCount == result.out[Len(result.out) - 1]
endCount == result.out[Len(result.out)]

\* C22: a mutation cycle that starts with more than 48 of the 96 cells
\* active ends with strictly fewer active cells and activates no cell that
\* was inactive.
C22_DenseShrinks ==
  [][(cycle /\ Cardinality(active(pattern)) > 48) =>
       /\ Cardinality(active(pattern')) < Cardinality(active(pattern))
       /\ active(pattern') \subseteq active(pattern)]_vars

\* A cycle from 49 active cells, all of subdivision 3, has ended with fewer.
C22_Witness ==
  /\ result.calls = 1
  /\ args = prefix(49, 3)
  /\ startCount = 49
  /\ endCount < 49

\* C24: a mutation cycle that starts above the hard cap (more than 48
\* active cells) ends at or below the soft cap (at most 33 active cells), and
\* every cell it changed was active and is now off.
C24_PrunedToSoftCap ==
  [][(cycle /\ Cardinality(active(pattern)) > 48) =>
       /\ Cardinality(active(pattern')) <= 33
       /\ \A c \in Cells :
            pattern'[c[1]][c[2]] # pattern[c[1]][c[2]] =>
              (pattern[c[1]][c[2]] > 0 /\ pattern'[c[1]][c[2]] = 0)]_vars

\* A cycle from the full pattern has left 33 cells active.
C24_Witness ==
  /\ result.calls = 1
  /\ args = prefix(96, 1)
  /\ result.out = <<96, 33>>

\* C25: in a run of mutation cycles that starts with at most 48 active
\* cells, every cycle ends with at most 52 active cells, and a cycle that
\* ends above 48 is followed by one that ends at or below 48.
C25_CapOvershoot ==
  (result.out # <<>> /\ result.out[1] <= 48) =>
    \A i \in 2 .. Len(result.out) :
      /\ result.out[i] <= 52
      /\ (result.out[i] > 48 /\ i < Len(result.out)) => result.out[i + 1] <= 48

\* From 48 active cells a cycle has ended with 52 and the next one with 33.
C25_Witness == result.out = <<48, 52, 33>>

\* The branch of mutatePattern the cycle of this step takes, and the one the
\* last cycle took.
applying == mutation(Cardinality(active(pattern)), Draw(events'[1].x, 1))
applied == mutation(startCount, Draw(events[1].x, 1))

\* How many cells of the row hold the value v.
holding(row, v) == Cardinality({s \in Steps : row[s] = v})

\* Row t of q holds the values of row t of p, each as many times, and the
\* other rows are the same.
sameValues(p, q, t) ==
  /\ \A v \in 0 .. 4 : holding(q[t], v) = holding(p[t], v)
  /\ \A o \in Tracks \ {t} : q[o] = p[o]

\* C26: shift replaces one track's row by its rotation by one step to the
\* left or to the right, swap exchanges the values of two cells of one
\* track; both keep the values of that row, each as many times, and leave
\* every other track as it was.
C26_ShiftSwapNeutral ==
  [][/\ (cycle /\ applying = "shift") =>
          \E t \in Tracks, d \in {1, -1} :
            /\ pattern'[t] = [s \in Steps |-> pattern[t][(s + d + 16) % 16]]
            /\ sameValues(pattern, pattern', t)
     /\ (cycle /\ applying = "swap") =>
          \E t \in Tracks, s1 \in Steps, s2 \in Steps :
            /\ pattern'[t] = [pattern[t] EXCEPT ![s1] = pattern[t][s2],
                                                ![s2] = pattern[t][s1]]
            /\ sameValues(pattern, pattern', t)]_vars

\* A shift has moved a row that holds subdivision values 2 to 4.
C26_Witness ==
  /\ result.calls = 1
  /\ args = ramps
  /\ applied = "shift"
  /\ pattern # ramps

\* C27: remove-hits turns off one or two active cells of one track, all of
\* them when the track has fewer and none when it has none, turns no cell on
\* and leaves every other track as it was.
C27_RemoveHits ==
  [][(cycle /\ applying = "remove") =>
       \E t \in Tracks :
         LET before == {s \in Steps : pattern[t][s] > 0}
             removed == {s \in Steps : pattern'[t][s] # pattern[t][s]}
         IN  /\ \A o \in Tracks \ {t} : pattern'[o] = pattern[o]
             /\ removed \subseteq before
             /\ \A s \in removed : pattern'[t][s] = 0
             /\ Cardinality(removed) <= 2
             /\ Cardinality(removed) <= Cardinality(before)
             /\ before # {} => Cardinality(removed) >= 1]_vars

\* Remove-hits has taken two hits off a full track of subdivision 3.
C27_Witness ==
  /\ result.calls = 1
  /\ args = prefix(17, 3)
  /\ applied = "remove"
  /\ result.out = <<17, 15>>

\* C28: the flip operator makes between 1 and 4 flips, and each of the
\* counts 1, 2, 3 and 4 is the count of some draw.
C28_OneToFourFlips ==
  /\ [][(cycle /\ applying = "flip") =>
          /\ flipCount(Draw(events'[1].x, 2)) \in 1 .. 4
          /\ Cardinality({c \in Cells : pattern'[c[1]][c[2]] # pattern[c[1]][c[2]]})
               <= flipCount(Draw(events'[1].x, 2))]_vars
  /\ [](\A n \in 1 .. 4 : \E u \in 0 .. RandScale - 1 : flipCount(u) = n)

\* What holds of the code: the counts are the counts 1 to 3.
C28_OneToThreeFlips == {flipCount(u) : u \in 0 .. RandScale - 1} = 1 .. 3

\* The sum of the first n entries of a sequence of numbers.
RECURSIVE sum(_, _)
sum(seq, n) == IF n = 0 THEN 0 ELSE seq[n] + sum(seq, n - 1)

fillCalled(evs) == Called(evs) \in {"applyFill", "applyFillType"}

\* The hit counts fillEuclidean gives each track: kick 2..5, snare 1..3,
\* closed hat 4..9, open hat 0..1, perc 1..5, accent 0..2.
hitRange == <<2 .. 5, 1 .. 3, 4 .. 9, 0 .. 1, 1 .. 5, 0 .. 2>>

\* The row is euclidean(k, 16) rotated by r, written with 0 and 1.
rotated(row, k, r) ==
  \A s \in Steps : row[s] = (IF euclidean(k, 16)[(s + r) % 16] THEN 1 ELSE 0)

\* C29: after fillEuclidean every cell is 0 or 1 and each track's row is a
\* rotation of euclidean(k, 16) for a k of the track's range.
C29_EuclideanFill ==
  (fillCalled(events) /\ returned(events) = "euclidean") =>
    \A t \in Tracks :
      /\ \A s \in Steps : pattern[t][s] \in {0, 1}
      /\ \E k \in hitRange[t + 1], r \in Steps : rotated(pattern[t], k, r)

\* fillEuclidean with every draw the highest has written 5, 3, 9, 1, 5 and
\* 2 hits over a pattern of subdivisions.
C29_Witness ==
  /\ fillCalled(events) /\ returned(events) = "euclidean"
  /\ edits = 1
  /\ args = prefix(96, 3)
  /\ \A t \in Tracks : holding(pattern[t], 1) = <<5, 3, 9, 1, 5, 2>>[t + 1]

\* C30: after applyFill or applyFillType of any kind every cell holds 0 or
\* 1, whatever it held before.
C30_FillReplacesAll ==
  [][fillCalled(events') => \A c \in Cells : pattern'[c[1]][c[2]] \in {0, 1}]_vars

\* fillGlitch has run on the pattern whose 96 cells held subdivision 3.
C30_Witness ==
  /\ calledWith(events, "applyFillType", "glitch")
  /\ edits = 1
  /\ args = prefix(96, 3)
  /\ \A c \in Cells : pattern[c[1]][c[2]] \in {0, 1}

\* The tapes whose draws give fillGlitch the pattern p.
glitchTapes(p) == {tape \in FillTapes \cup FillDraws : p = filled["glitch", tape]}

\* Some track of p holds two active cells side by side.
hasRun(p) == \E t \in Tracks, s \in 0 .. STEPS - 2 : p[t][s] > 0 /\ p[t][s + 1] > 0

\* C31: after fillGlitch some track holds at least 2 active cells in a row:
\* the burst is 2 to 4 steps long, on one track, every cell of it active, and
\* it lies inside steps 0..15 for every pair of draws, so the end of the row
\* never cuts it.
C31_BurstInsideRow ==
  (fillCalled(events) /\ returned(events) = "glitch") =>
    /\ hasRun(pattern)
    /\ \A tape \in glitchTapes(pattern) :
         /\ burstLength(tape) \in 2 .. 4
         /\ burstStart(tape) + burstLength(tape) <= STEPS
         /\ \A s \in burstStart(tape) .. burstStart(tape) + burstLength(tape) - 1 :
              pattern[burstTrack(tape)][s] = 1
    /\ \A u, v \in 0 .. RandScale - 1 :
         /\ burstLength(<<0, u, v>>) \in 2 .. 4
         /\ burstStart(<<0, u, v>>) + burstLength(<<0, u, v>>) <= STEPS

\* fillGlitch with the highest draws: the burst of 4 steps starts at step 11
\* of track 5 and its last cell is step 14.
C31_Witness ==
  /\ fillCalled(events) /\ returned(events) = "glitch"
  /\ pattern = filled["glitch", <<99>>]
  /\ burstTrack(<<99>>) = 5 /\ burstStart(<<99>>) = 11 /\ burstLength(<<99>>) = 4
  /\ \A s \in 11 .. 14 : pattern[5][s] = 1

\* The times of the synthesis requests a handler step sent on the voice of
\* track t, in the order of the calls.
requests(evs, t) ==
  LET sent == {i \in DOMAIN evs : evs[i].ev = "triggerDrum" /\ evs[i].x = t}
  IN  [j \in 1 .. Cardinality(sent) |->
         evs[CHOOSE i \in sent : Cardinality({k \in sent : k < i}) = j - 1].t]

\* The step has just dispatched a step: scheduleStep(step, T) was called.
dispatched(evs) == Called(evs) = "scheduleStep"

\* C32: the dispatch of step s at target time T sends, for each track whose
\* cell v is not 0, first the v base requests on that track's voice, at
\* T + i * stepDuration / v for i = 0 .. v - 1, all of them in
\* [T, T + stepDuration); it sends nothing for a track whose cell is 0; and
\* with a stutter rate of 0 it sends nothing else.
C32_BaseRequests ==
  [][dispatched(events') =>
       LET T == events'[1].t
           s == events'[1].x
           d == stepDuration(tempo)
       IN  \A t \in Tracks :
             LET v == pattern[t][s]
                 r == requests(events', t)
             IN  /\ v = 0 => r = <<>>
                 /\ Len(r) >= v
                 /\ \A i \in 0 .. v - 1 :
                      /\ r[i + 1] * v = T * v + i * d
                      /\ T <= r[i + 1] /\ r[i + 1] < T + d
                 /\ stutterRate = 0 => Len(r) = v]_vars

\* Step 4 of the ramps, where tracks 0 to 2 hold 4, was dispatched at tempo
\* 120 with a stutter rate of 0 and every chance: four requests a track, 300
\* units apart, and none on tracks 3 to 5.
C32_Witness ==
  /\ dispatched(events) /\ events[1].x = 4
  /\ pattern = ramps /\ tempo = TEMPO_DEFAULT
  /\ stutterRate = 0 /\ stutterChance = STUTTER_MAX
  /\ \A t \in 0 .. 2 :
       requests(events, t) = [i \in 1 .. 4 |-> events[1].t + (i - 1) * 300]
  /\ \A t \in 3 .. 5 : requests(events, t) = <<>>

\* floor(2 + 6r) for the rate r in hundredths.
mostStutters(r) == (2 * STUTTER_MAX + 6 * r) \div STUTTER_MAX

\* The element of {2, 4, 8, 16} at index min(floor(4r), 3).
stutterDivision(r) == <<2, 4, 8, 16>>[Min((4 * r) \div STUTTER_MAX, 3) + 1]

C33_WitnessOne ==
  /\ dispatched(events)
  /\ tempo = TEMPO_DEFAULT
  /\ pattern[0][events[1].x] = 3
  /\ stutterRate = 20
  /\ Len(requests(events, 0)) = 3 + 1
  /\ requests(events, 0)[4] = events[1].t + 600

\* A tick has just begun and finds nextStepTime at or beyond the window.
windowFull == pc = "loop" /\ events = <<>> /\ nextStepTime >= now + LOOKAHEAD

\* What a step of the scheduler does about the window.
windowed ==
  /\ dispatched(events') => events'[1].t < now + LOOKAHEAD
  /\ (pc = "loop" /\ pc' = "idle") => nextStepTime' >= now + LOOKAHEAD
  /\ windowFull =>
       /\ pc' = "idle" /\ events' = <<>>
       /\ UNCHANGED <<isPlaying, currentStep, nextStepTime, schedulerInterval, run>>

\* C34: a step is dispatched only with a target time below the tick's
\* clock reading plus LOOKAHEAD; when a tick of a running sequencer ends,
\* nextStepTime is at least that reading plus LOOKAHEAD; and a tick that
\* finds nextStepTime at or beyond the window dispatches nothing and leaves
\* the playback state as it is.
C34_LookaheadWindow == [][windowed]_vars

\* A tick of a run that has dispatched steps finds the window full.
C34_Witness == windowFull /\ run.n > 0 /\ isPlaying

\* The target time of the step just dispatched is before the clock reading
\* of its tick.
late == dispatched(events) /\ events[1].t < now

\* C35: SCHEDULE_AHEAD < LOOKAHEAD, and while every tick of the run has
\* fired no more than SCHEDULE_AHEAD after the tick before it (the first no
\* more than SCHEDULE_AHEAD after the start), no dispatched step is late.
C35_OnCadenceNeverLate ==
  /\ SCHEDULE_AHEAD < LOOKAHEAD
  /\ (dispatched(events) /\ run.gap <= SCHEDULE_AHEAD) => ~late

\* On cadence, a tick after the first has dispatched a step whose target
\* time is more than its clock reading.
C35_Witness ==
  /\ dispatched(events) /\ run.gap = SCHEDULE_AHEAD
  /\ run.before > 0
  /\ events[1].t > now

\* C36: while every tick of the run has fired less than LOOKAHEAD after the
\* tick before it (the first less than LOOKAHEAD after the start), no
\* dispatched step is late, the first step 0 included.
C36_JitterNeverLate ==
  (dispatched(events) /\ run.gap < LOOKAHEAD) => ~late

\* Under such jitter the late steps are those of the first tick of a run: the
\* first step is due INITIAL_DELAY after the start.
C36_LateInFirstTick ==
  (late /\ run.gap < LOOKAHEAD) => (run.before = 0 /\ run.gap > INITIAL_DELAY)

\* The observer was told -1, told a step index.
cleared(evs) == \E i \in DOMAIN evs : evs[i].ev = "onStepChange" /\ evs[i].x = -1

stepShown(evs) == \E i \in DOMAIN evs : evs[i].ev = "onStepChange" /\ evs[i].x >= 0

\* C37: once stopSequencer has told the step observer -1, the observer is
\* told no step index while the sequencer stays stopped: the notifications
\* deferred before the stop are not delivered after it.
C37_StoppedShowsNoStep ==
  [][(cleared(events) /\ ~isPlaying') => ~stepShown(events')]_vars

\* C38: a deferred step or pattern notification never calls an observer that
\* has been set to null since the notification was scheduled: no deferred
\* call ends in an error.
C38_ClearedNeverCalled ==
  \A i \in DOMAIN events : events[i].ev # "TypeError"

\* C39: in every state the sequencer is playing exactly when a tick timer is
\* registered, at most one tick timer is registered (the one whose handle
\* the sequencer holds), the step index is in 0..15, and it is 0 whenever
\* the sequencer is stopped.
C39_PlayingIffTimer ==
  /\ isPlaying <=> intervals # {}
  /\ Cardinality(intervals) <= 1
  /\ isPlaying <=> schedulerInterval # NULL
  /\ isPlaying => intervals = {schedulerInterval}
  /\ currentStep \in 0 .. STEPS - 1
  /\ ~isPlaying => currentStep = 0

\* A run was stopped at a step other than 0: the timer is gone and the step
\* index is 0 again.
C39_Witness ==
  /\ ~isPlaying /\ run.resumed /\ run.n > 0
  /\ intervals = {} /\ schedulerInterval = NULL
  /\ currentStep = 0

\* The shortest step duration, 0.075 s, that of tempo 200.
shortestStep == stepDuration(TEMPO_MAX)

\* The most steps a tick can dispatch when every step takes at least the
\* shortest duration: the targets lie between the first target of the run
\* and the end of the window.
mostSteps == (now + LOOKAHEAD - (run.start + INITIAL_DELAY)) \div shortestStep + 1

\* C40: the tempo is always within [40, 200], so the step duration is at
\* least 0.075 s, every iteration of the tick loop moves nextStepTime on,
\* and a tick dispatches finitely many steps however late it fires.
C40_TempoBoundsTicks ==
  /\ tempo \in TEMPO_MIN .. TEMPO_MAX
  /\ stepDuration(tempo) >= shortestStep
  /\ dispatched(events) => nextStepTime > events[1].t
  /\ pc = "loop" => run.n - run.before <= mostSteps

\* A tick ends after finitely many steps also when the tempo is NaN: the
\* first iteration makes nextStepTime NaN and the window test fails.
C40_TickLoopExits ==
  /\ pc = "loop" => run.n - run.before <= mostSteps
  /\ (dispatched(events) /\ tempo = NaN) => (nextStepTime = NaN /\ ~inWindow(nextStepTime))

====
